---- MODULE Spec2Model ----
(***************************************************************************)
(* The driver dashboard of DriverNotif: the online toggle, the 5-second    *)
(* booking poll, the booking list / slider / detail modal with their       *)
(* 1-second countdowns, and the accept path.                               *)
(*                                                                         *)
(* Two builds of the dashboard are in the repository and both are          *)
(* modelled; the variable build tells which one runs:                      *)
(*   "base": app/(dashboard)/index.tsx with the swipe-only slider          *)
(*   "map" : the map dashboard with the slider that has Accept / Decline   *)
(*           buttons                                                       *)
(* Time is in milliseconds; the clock moves in steps of GranuleMs.          *)
(***************************************************************************)
EXTENDS Integers, Sequences, FiniteSets, TLC

\* ------------------------------------------------------------- bounds
MaxTicks == 4
GranuleMs == 500
MaxInFlight == 2
MaxAnims == 2
ScreenWidth == 20
MaxBackTimers == 2
MaxReviews == 3
MaxRideTimers == 2      \* setTimeout calls of the ride screen not yet fired
MaxWaitingSeconds == 3  \* ticks of the waiting-time timer
LineChars == 4          \* characters on one line of a Text

BookingIds == {"O1", "O2"}
Builds == {"base", "map"}

\* the countdown intervals: setInterval(..., 1000), and the divisor of
\* calculateTimeRemaining
IntervalMs == 1000
MsPerSecond == 1000

\* expires_at of each booking, in ms after the start: O1 lives 1 s, O2 1.5 s
ExpiresAtOf(id) == IF id = "O1" THEN IntervalMs ELSE IntervalMs + (IntervalMs \div 2)

Booking(id) == [id |-> id, expires_at |-> ExpiresAtOf(id)]

NoBooking == [id |-> "null", expires_at |-> 0]

Max2(a, b) == IF a >= b THEN a ELSE b
Min2(a, b) == IF a <= b THEN a ELSE b

Ids(bks) == {bks[i].id : i \in 1..Len(bks)}

RemoveAt(s, i) == SubSeq(s, 1, i - 1) \o SubSeq(s, i + 1, Len(s))

\* the lists the backend can answer with: no identifier twice
BookingLists ==
  {<<>>} \cup {<<Booking(a)>> : a \in BookingIds}
         \cup UNION {{<<Booking(a), Booking(b)>> : b \in BookingIds \ {a}} : a \in BookingIds}

\* response.data of GET /booking-requests: the bookings field can be absent
ServerPayloads ==
  {[hasBookings |-> TRUE, bookings |-> l] : l \in BookingLists}
    \cup {[hasBookings |-> FALSE, bookings |-> <<>>]}

VARIABLES
  build,            \* which dashboard build runs
  mounted,          \* DashboardScreen is mounted
  isOnline, viewMode, bookingRequests, selectedBooking, isModalVisible,
  pollIntervals,    \* number of live setInterval handles of the polling effect
  currentIndex,     \* BookingSliderView state
  itemViews,        \* per booking id: its mounted list row or slider card
  modal,            \* BookingDetailModal: countdown timer and timeRemaining
  pendingAnims,     \* card exit animations whose completion callback is due
  statusReqs,       \* online-status requests in flight
  fetchReqs,        \* booking-requests requests in flight
  backendOnline,    \* driver.is_online at the backend
  serverData,       \* what the backend answers to booking-requests now
  now,              \* the clock, in ms
  decisions,        \* history: the decisions applied to each offer of the set
  out,              \* history: what the last step did (handler, requests, toast, log)
  forgot,           \* ForgotPasswordScreen: its state, its request, its toast
  acceptCall,       \* a call of acceptBooking of services/api
  login,            \* LoginScreen: its fields, its request, its alert
  storage,          \* AsyncStorage
  review,           \* the registration, review and success screens
  display,          \* what a list row, a stack card or the modal displays of an offer
  ride              \* ActiveRideScreen: rideStatus, the dialog, the timers, the route

dashVars == <<mounted, isOnline, viewMode, bookingRequests, selectedBooking,
              isModalVisible>>
viewVars == <<pollIntervals, currentIndex, itemViews, modal>>
netVars == <<statusReqs, fetchReqs>>
serverVars == <<backendOnline, serverData>>
\* the screens and the API calls outside the dashboard
otherVars == <<forgot, acceptCall, login, storage, review, display, ride>>
vars == <<build, dashVars, viewVars, pendingAnims, netVars, serverVars, now,
          decisions, out, otherVars>>

\* ------------------------------------------------- countdown engine
\* the same without the clamp at 0
CalculateTimeRemainingUnclamped(expiresAt, t) == (expiresAt - t) \div MsPerSecond

\* Math.max(0, Math.floor((expiresAt - now) / 1000))
CalculateTimeRemaining(expiresAt, t) == Max2(0, (expiresAt - t) \div MsPerSecond)

\* ------------------------------------------------- services/api
\* getBookingRequests: return response.data.bookings || []
GetBookingRequests(data) == IF data.hasBookings THEN data.bookings ELSE <<>>

\* ------------------------------------------------- strings
\* the strings the code tests with toLowerCase() and includes(), as sequences
\* of characters
UpperCase == <<"A", "B", "C", "D", "E", "F", "G", "H", "I", "J", "K", "L", "M",
               "N", "O", "P", "Q", "R", "S", "T", "U", "V", "W", "X", "Y", "Z">>
LowerCase == <<"a", "b", "c", "d", "e", "f", "g", "h", "i", "j", "k", "l", "m",
               "n", "o", "p", "q", "r", "s", "t", "u", "v", "w", "x", "y", "z">>

\* String.prototype.toLowerCase
ToLowerCase(s) ==
  [i \in 1..Len(s) |->
     IF \E k \in 1..Len(UpperCase) : UpperCase[k] = s[i]
       THEN LowerCase[CHOOSE k \in 1..Len(UpperCase) : UpperCase[k] = s[i]]
       ELSE s[i]]

\* String.prototype.includes
Includes(s, pat) ==
  \E i \in 0..(Len(s) - Len(pat)) : SubSeq(s, i + 1, i + Len(pat)) = pat

\* String.prototype.trim, for the blanks
RECURSIVE TrimStart(_)
TrimStart(s) == IF s # <<>> /\ Head(s) = " " THEN TrimStart(Tail(s)) ELSE s

RECURSIVE TrimEnd(_)
TrimEnd(s) ==
  IF s # <<>> /\ s[Len(s)] = " " THEN TrimEnd(SubSeq(s, 1, Len(s) - 1)) ELSE s

Trim(s) == TrimEnd(TrimStart(s))

\* a || b || c on strings: the empty string and undefined are falsy
Or3(a, b, c) == IF a # <<>> THEN a ELSE IF b # <<>> THEN b ELSE c

\* FORGOT_PASSWORD_FEATURE.md: the detail of the 404 response
NoAccountDetail ==
  <<"N", "o", " ", "a", "c", "c", "o", "u", "n", "t", " ", "f", "o", "u",
    "n", "d", " ", "w", "i", "t", "h", " ", "t", "h", "a", "t", " ", "e",
    "m", "a", "i", "l", " ", "o", "r", " ", "p", "h", "o", "n", "e", " ",
    "n", "u", "m", "b", "e", "r">>

\* the detail of the 400 response
OAuthDetail ==
  <<"T", "h", "i", "s", " ", "a", "c", "c", "o", "u", "n", "t", " ", "u",
    "s", "e", "s", " ", "g", "o", "o", "g", "l", "e", " ", "a", "u", "t",
    "h", "e", "n", "t", "i", "c", "a", "t", "i", "o", "n", ".", " ", "P",
    "a", "s", "s", "w", "o", "r", "d", " ", "r", "e", "s", "e", "t", " ",
    "i", "s", " ", "n", "o", "t", " ", "a", "v", "a", "i", "l", "a", "b",
    "l", "e", ".">>

\* the detail of the 500 response
EmailFailedDetail ==
  <<"F", "a", "i", "l", "e", "d", " ", "t", "o", " ", "s", "e", "n", "d",
    " ", "r", "e", "s", "e", "t", " ", "e", "m", "a", "i", "l", ".", " ",
    "P", "l", "e", "a", "s", "e", " ", "t", "r", "y", " ", "a", "g", "a",
    "i", "n", " ", "l", "a", "t", "e", "r", ".">>

\* sendPasswordResetLink: the message when the body has neither detail nor message
FailedResetLink ==
  <<"F", "a", "i", "l", "e", "d", " ", "t", "o", " ", "s", "e", "n", "d",
    " ", "r", "e", "s", "e", "t", " ", "l", "i", "n", "k">>

\* acceptBooking: the message when the body has neither detail nor message
FailedAccept ==
  <<"F", "a", "i", "l", "e", "d", " ", "t", "o", " ", "a", "c", "c", "e",
    "p", "t", " ", "b", "o", "o", "k", "i", "n", "g">>

\* no response was received
UnableToReach ==
  <<"U", "n", "a", "b", "l", "e", " ", "t", "o", " ", "r", "e", "a", "c",
    "h", " ", "s", "e", "r", "v", "e", "r", ".", " ", "P", "l", "e", "a",
    "s", "e", " ", "c", "h", "e", "c", "k", " ", "y", "o", "u", "r", " ",
    "i", "n", "t", "e", "r", "n", "e", "t", " ", "c", "o", "n", "n", "e",
    "c", "t", "i", "o", "n", ".">>

\* the error is not an axios error
UnexpectedError ==
  <<"A", "n", " ", "u", "n", "e", "x", "p", "e", "c", "t", "e", "d", " ",
    "e", "r", "r", "o", "r", " ", "o", "c", "c", "u", "r", "r", "e", "d",
    ".", " ", "P", "l", "e", "a", "s", "e", " ", "t", "r", "y", " ", "a",
    "g", "a", "i", "n", ".">>

\* handleSendResetLink: the text of the generic toast when the message is empty
UnableToSend ==
  <<"U", "n", "a", "b", "l", "e", " ", "t", "o", " ", "s", "e", "n", "d",
    " ", "r", "e", "s", "e", "t", " ", "l", "i", "n", "k", ".", " ", "P",
    "l", "e", "a", "s", "e", " ", "t", "r", "y", " ", "a", "g", "a", "i",
    "n", ".">>

\* handleSendResetLink: the two patterns of the catch
NotFoundPattern ==
  <<"n", "o", "t", " ", "f", "o", "u", "n", "d">>

DoesNotExistPattern ==
  <<"d", "o", "e", "s", " ", "n", "o", "t", " ", "e", "x", "i", "s", "t">>

\* dashboard feature notes: the error responses of the accept endpoint
BookingNotFound ==
  <<"B", "o", "o", "k", "i", "n", "g", " ", "n", "o", "t", " ", "f", "o",
    "u", "n", "d">>

BookingTaken ==
  <<"B", "o", "o", "k", "i", "n", "g", " ", "a", "l", "r", "e", "a", "d",
    "y", " ", "a", "s", "s", "i", "g", "n", "e", "d", " ", "o", "r", " ",
    "n", "o", " ", "l", "o", "n", "g", "e", "r", " ", "a", "v", "a", "i",
    "l", "a", "b", "l", "e">>

BookingExpired ==
  <<"B", "o", "o", "k", "i", "n", "g", " ", "e", "x", "p", "i", "r", "e",
    "d">>

\* handleSendResetLink: the second lines of its toasts
EnterEmailText ==
  <<"P", "l", "e", "a", "s", "e", " ", "e", "n", "t", "e", "r", " ", "y",
    "o", "u", "r", " ", "e", "m", "a", "i", "l", " ", "o", "r", " ", "p",
    "h", "o", "n", "e", " ", "n", "u", "m", "b", "e", "r">>

CheckEmailText ==
  <<"C", "h", "e", "c", "k", " ", "y", "o", "u", "r", " ", "e", "m", "a",
    "i", "l", " ", "f", "o", "r", " ", "p", "a", "s", "s", "w", "o", "r",
    "d", " ", "r", "e", "s", "e", "t", " ", "i", "n", "s", "t", "r", "u",
    "c", "t", "i", "o", "n", "s">>

CheckAgainText ==
  <<"P", "l", "e", "a", "s", "e", " ", "c", "h", "e", "c", "k", " ", "a",
    "n", "d", " ", "t", "r", "y", " ", "a", "g", "a", "i", "n">>

\* ------------------------------------------------- services/api errors
\* what axios gives for a request: a 2xx response with its data, an error with
\* a response (status and body), an error without response, or another throw
HttpOk(success, message) ==
  [type |-> "data", status |-> 200, success |-> success, detail |-> <<>>,
   message |-> message]

HttpError(status, detail, message) ==
  [type |-> "response", status |-> status, success |-> FALSE, detail |-> detail,
   message |-> message]

NoResponse ==
  [type |-> "request", status |-> 0, success |-> FALSE, detail |-> <<>>,
   message |-> <<>>]

OtherThrow ==
  [type |-> "other", status |-> 0, success |-> FALSE, detail |-> <<>>,
   message |-> <<>>]

\* the try / catch that sendPasswordResetLink and acceptBooking share:
\* return response.data, or throw new Error(detail || message || fallback),
\* new Error('Unable to reach server...'), new Error('An unexpected error...')
ApiResult(r, fallback) ==
  IF r.type = "data" THEN [ok |-> TRUE, success |-> r.success, message |-> r.message]
  ELSE IF r.type = "response"
    THEN [ok |-> FALSE, success |-> FALSE,
          message |-> Or3(r.detail, r.message, fallback)]
  ELSE IF r.type = "request"
    THEN [ok |-> FALSE, success |-> FALSE, message |-> UnableToReach]
  ELSE [ok |-> FALSE, success |-> FALSE, message |-> UnexpectedError]

SendPasswordResetLink(r) == ApiResult(r, FailedResetLink)

AcceptBooking(r) == ApiResult(r, FailedAccept)

\* the responses of POST /auth/forgot-password
ResetResponses ==
  {HttpOk(TRUE, <<>>), HttpOk(FALSE, <<>>),
   HttpError(404, NoAccountDetail, <<>>), HttpError(404, <<>>, <<>>),
   HttpError(400, OAuthDetail, <<>>), HttpError(500, EmailFailedDetail, <<>>),
   NoResponse, OtherThrow}

\* the responses of POST /dashboard/bookings/{id}/accept
AcceptResponses ==
  {HttpOk(TRUE, <<>>),
   HttpError(404, BookingNotFound, <<>>), HttpError(404, <<>>, <<>>),
   HttpError(409, BookingTaken, <<>>), HttpError(409, <<>>, <<>>),
   HttpError(410, BookingExpired, <<>>), HttpError(410, <<>>, <<>>),
   HttpError(500, <<>>, <<>>), NoResponse, OtherThrow}

NoToast == [type |-> "none", text1 |-> "none", text2 |-> <<>>]

\* ForgotPasswordScreen after it mounted on top of the login screen
InitialForgot ==
  [emailOrPhone |-> <<>>, isLoading |-> FALSE, pending |-> <<>>,
   toast |-> NoToast, last |-> OtherThrow, event |-> "none", backTimers |-> 0,
   screen |-> "forgot"]

\* ------------------------------------------------- login
\* loginDriver: the message when the body has neither detail nor message
LoginFailedText ==
  <<"L", "o", "g", "i", "n", " ", "f", "a", "i", "l", "e", "d">>

\* the detail of a 401
InvalidCredentialsDetail ==
  <<"I", "n", "v", "a", "l", "i", "d", " ", "c", "r", "e", "d", "e", "n",
    "t", "i", "a", "l", "s">>

\* handleLogin: the text of the alert when the error has no message
CheckCredentialsText ==
  <<"P", "l", "e", "a", "s", "e", " ", "c", "h", "e", "c", "k", " ", "y",
    "o", "u", "r", " ", "c", "r", "e", "d", "e", "n", "t", "i", "a", "l",
    "s", " ", "a", "n", "d", " ", "t", "r", "y", " ", "a", "g", "a", "i",
    "n", ".">>

\* response.data of POST /auth/login: success, and data when it is there
LoginOk(success, hasData) ==
  [type |-> "data", status |-> 200, success |-> success, detail |-> <<>>,
   message |-> <<>>, hasData |-> hasData]

LoginError(r) ==
  [type |-> r.type, status |-> r.status, success |-> FALSE, detail |-> r.detail,
   message |-> r.message, hasData |-> FALSE]

LoginResponses ==
  {LoginOk(TRUE, TRUE), LoginOk(TRUE, FALSE), LoginOk(FALSE, TRUE),
   LoginOk(FALSE, FALSE),
   LoginError(HttpError(401, InvalidCredentialsDetail, <<>>)),
   LoginError(HttpError(500, <<>>, <<>>)),
   LoginError(NoResponse), LoginError(OtherThrow)}

\* loginDriver: return response.data, or throw as the other calls do
LoginDriver(r) ==
  LET a == ApiResult(r, LoginFailedText)
  IN [ok |-> a.ok, success |-> a.success, message |-> a.message,
      hasData |-> r.type = "data" /\ r.hasData]

\* AsyncStorage before any login
InitialStorage ==
  [access_token |-> "none", driver_id |-> "none", driver_email |-> "none",
   driver_name |-> "none"]

\* the four setItem calls of handleLogin
StoredLogin ==
  [access_token |-> "data.access_token", driver_id |-> "data.driver_id",
   driver_email |-> "data.email",
   driver_name |-> "data.first_name data.surname"]

\* LoginScreen after it mounted
InitialLogin ==
  [emailOrUsername |-> <<>>, password |-> <<>>, isLoading |-> FALSE,
   pending |-> <<>>, alert |-> "none", alertText |-> <<>>,
   last |-> LoginError(OtherThrow), event |-> "none", screen |-> "login"]

\* ------------------------------------------------- review
\* registerDriver: the message when the body has neither message nor error
RegistrationFailedText ==
  <<"R", "e", "g", "i", "s", "t", "r", "a", "t", "i", "o", "n", " ", "f",
    "a", "i", "l", "e", "d">>

EmailTakenMessage ==
  <<"E", "m", "a", "i", "l", " ", "a", "l", "r", "e", "a", "d", "y", " ",
    "r", "e", "g", "i", "s", "t", "e", "r", "e", "d">>

PleaseTryAgainText ==
  <<"P", "l", "e", "a", "s", "e", " ", "t", "r", "y", " ", "a", "g", "a",
    "i", "n">>

\* what POST /registration/driver can do: a body, an error status with
\* message and error of its body, no response, another throw
RegisterResponses ==
  {[type |-> "data", success |-> TRUE, message |-> <<>>, error |-> <<>>],
   [type |-> "data", success |-> FALSE, message |-> <<>>, error |-> <<>>],
   [type |-> "response", success |-> FALSE, message |-> EmailTakenMessage,
    error |-> <<>>],
   [type |-> "response", success |-> FALSE, message |-> <<>>, error |-> <<>>],
   [type |-> "request", success |-> FALSE, message |-> <<>>, error |-> <<>>],
   [type |-> "other", success |-> FALSE, message |-> <<>>, error |-> <<>>]}

\* registerDriver: return response.data, or throw an Error with a message
RegisterDriver(r) ==
  IF r.type = "data" THEN [ok |-> TRUE, message |-> <<>>]
  ELSE IF r.type = "response"
    THEN [ok |-> FALSE, message |-> Or3(r.message, r.error, RegistrationFailedText)]
  ELSE IF r.type = "request" THEN [ok |-> FALSE, message |-> UnableToReach]
  ELSE [ok |-> FALSE, message |-> UnexpectedError]

\* the registration form is on top of the stack, no review screen mounted yet
InitialReview ==
  [screen |-> "registration", inst |-> 0, isSubmitting |-> FALSE,
   pending |-> <<>>, alert |-> <<>>, last |-> "none", event |-> "none"]

\* ------------------------------------------------- rendering an offer
\* numbers of the wire payload are counted in thousandths
RECURSIVE Pow10(_)
Pow10(n) == IF n = 0 THEN 1 ELSE 10 * Pow10(n - 1)

\* Number.prototype.toFixed(digits): the n for which n / 10^digits is nearest
\* to x, the larger n on a tie; the text is n written with digits decimals
ToFixed(x, digits) ==
  [n |-> (2 * x * Pow10(digits) + Pow10(3)) \div (2 * Pow10(3)),
   digits |-> digits]

\* the number a text of toFixed reads as, in thousandths
ValueOf(t) == t.n * Pow10(3 - t.digits)

\* numberOfLines of the Text of pickup_location and dropoff_location
NumberOfLines(view) ==
  IF view = "list" THEN 1 ELSE IF view = "card" THEN 2 ELSE 0

\* a Text with numberOfLines cuts what does not fit and ends it with an ellipsis
Ellipsize(text, numberOfLines) ==
  IF numberOfLines = 0 \/ Len(text) <= numberOfLines * LineChars THEN text
  ELSE SubSeq(text, 1, numberOfLines * LineChars - 1) \o <<"...">>

\* fare and distance of response.data.bookings, with binary fractions where
\* the third decimal is a 5
WireFares == {12000, 12500, 12340, 12346, 8125}
WireDistances == {3000, 3200, 3270, 10049}
WireLocations ==
  {<<"M", "a", "i", "n">>, <<"A", "i", "r", "p", "o", "r", "t">>,
   <<"1", "2", " ", "O", "a", "k", " ", "S", "t", " ", "N", "W">>}

WireOffers ==
  [fare : WireFares, distance : WireDistances,
   pickup_location : WireLocations, dropoff_location : WireLocations]

Views == {"list", "card", "modal"}

\* the texts of fare, distance, pickup and dropoff of one view of one offer
RenderOffer(view, booking) ==
  [view |-> view, booking |-> booking,
   fare |-> ToFixed(booking.fare, 2),
   distance |-> ToFixed(booking.distance, 1),
   pickup_location |-> Ellipsize(booking.pickup_location, NumberOfLines(view)),
   dropoff_location |-> Ellipsize(booking.dropoff_location, NumberOfLines(view))]

\* nothing rendered yet
InitialDisplay ==
  [view |-> "none",
   booking |-> [fare |-> 0, distance |-> 0, pickup_location |-> <<>>,
                dropoff_location |-> <<>>],
   fare |-> ToFixed(0, 2), distance |-> ToFixed(0, 1),
   pickup_location |-> <<>>, dropoff_location |-> <<>>]

\* ------------------------------------------------- active ride
\* ActiveRideScreen after it mounted with booking data
InitialRide ==
  [rideStatus |-> "en_route_pickup", alert |-> "none", toast |-> "none",
   waitingSeconds |-> 0, completedTimers |-> 0, cancelTimers |-> 0,
   screen |-> "active-ride", pushes |-> 0, event |-> "none"]

\* no acceptBooking call has been made
InitialAcceptCall ==
  [state |-> "idle", id |-> "null", resp |-> OtherThrow,
   result |-> ApiResult(OtherThrow, <<>>)]

\* ------------------------------------------------- render
InitialViewMode(b) == IF b = "base" THEN "list" ELSE "slider"

ListShown(m, on, vm, bks) == m /\ on /\ Len(bks) > 0 /\ vm = "list"
SliderShown(m, on, vm, bks) == m /\ on /\ Len(bks) > 0 /\ vm = "slider"

\* bookings.slice(currentIndex, currentIndex + 2)
CardSlice(bks, idx) == SubSeq(bks, idx + 1, Min2(idx + 2, Len(bks)))

\* .reverse().map((booking, index) => ... isTopCard={index === 1})
IsTopCard(bks, idx, id) ==
  LET s == CardSlice(bks, idx)
  IN \E i \in 1..Len(s) : s[i].id = id /\ (Len(s) - i) = 1

NoView == [kind |-> "none", expires_at |-> 0, timeRemaining |-> 0, nextFire |-> 0,
           panTop |-> FALSE, panIndex |-> 0, panBookings |-> <<>>]

\* a list row mounts: its effect computes the time and starts its interval
NewRow(b, t) ==
  [kind |-> "row", expires_at |-> b.expires_at,
   timeRemaining |-> CalculateTimeRemaining(b.expires_at, t),
   nextFire |-> t + IntervalMs,
   panTop |-> FALSE, panIndex |-> 0, panBookings |-> <<>>]

\* a slider card mounts: as a row, and its PanResponder is created once, over
\* the isTopCard, the currentIndex and the bookings of this first render
NewCard(b, t, bks, idx) ==
  [kind |-> "card", expires_at |-> b.expires_at,
   timeRemaining |-> CalculateTimeRemaining(b.expires_at, t),
   nextFire |-> t + IntervalMs,
   panTop |-> IsTopCard(bks, idx, b.id), panIndex |-> idx, panBookings |-> bks]

BookingOf(bks, id) == bks[CHOOSE i \in 1..Len(bks) : bks[i].id = id]

\* the countdown effect of a mounted item re-runs when booking.expires_at changes
KeepOrRestart(old, fresh) ==
  IF old.kind = fresh.kind /\ old.expires_at = fresh.expires_at THEN old ELSE fresh

ItemViewsAfter(old, m, on, vm, bks, idx, t) ==
  [id \in BookingIds |->
     IF ListShown(m, on, vm, bks) /\ id \in Ids(bks)
       THEN KeepOrRestart(old[id], NewRow(BookingOf(bks, id), t))
     ELSE IF SliderShown(m, on, vm, bks) /\ id \in Ids(CardSlice(bks, idx))
       THEN KeepOrRestart(old[id], NewCard(BookingOf(bks, id), t, bks, idx))
     ELSE NoView]

InitialModal == [timer |-> FALSE, expires_at |-> 0, nextFire |-> 0, timeRemaining |-> 0]

\* BookingDetailModal countdown effect, deps [booking?.expires_at]
ModalAfter(old, wasMounted, oldSel, m, sel, t) ==
  IF ~m THEN InitialModal
  ELSE IF wasMounted /\ oldSel.id # "null" /\ sel.id # "null"
          /\ oldSel.expires_at = sel.expires_at THEN old
  ELSE IF wasMounted /\ oldSel.id = "null" /\ sel.id = "null" THEN old
  ELSE IF sel.id = "null" THEN [old EXCEPT !.timer = FALSE]
  ELSE [timer |-> TRUE, expires_at |-> sel.expires_at, nextFire |-> t + IntervalMs,
        timeRemaining |-> CalculateTimeRemaining(sel.expires_at, t)]

PollingEffectNoCleanup(wasMounted, wasOnline, m, on, timers) ==
  LET reruns == (wasMounted /\ ~m) \/ (m /\ ~wasMounted) \/ (m /\ on # wasOnline)
  IN IF reruns /\ m /\ on THEN timers + 1 ELSE timers

\* polling effect, deps [isOnline]: the cleanup of the previous run, then
\* setInterval when online
PollingEffect(wasMounted, wasOnline, m, on, timers) ==
  LET reruns == (wasMounted /\ ~m) \/ (m /\ ~wasMounted) \/ (m /\ on # wasOnline)
      cleaned == IF reruns /\ wasMounted /\ wasOnline THEN timers - 1 ELSE timers
  IN IF reruns /\ m /\ on THEN cleaned + 1 ELSE cleaned

\* history of the last step: the handler that ran, the booking it was about,
\* the requests it sent, its toast and console line, for the handlers that
\* set the bookings or the online flag what these were before, and for a
\* completed fetch its place among the fetches in flight (1 is the oldest)
NoOut == [event |-> "none", id |-> "null", sent |-> <<>>, toast |-> "none",
          log |-> "none", prev |-> <<>>, prevOnline |-> FALSE, req |-> 0]

Event(e) == [NoOut EXCEPT !.event = e]

EventOn(e) == [NoOut EXCEPT !.event = e, !.prev = bookingRequests,
                            !.prevOnline = isOnline]

\* React commits the new state of DashboardScreen: the screen renders, views
\* mount and unmount, effects run.  The state of an unmounted component is gone.
Commit(m, on, vm, bks, sel, vis, idx, anims, dec) ==
  LET shown == SliderShown(m, on, vm, bks)
      idx2 == IF shown THEN idx ELSE 0
  IN /\ mounted' = m
     /\ isOnline' = on
     /\ viewMode' = vm
     /\ bookingRequests' = bks
     /\ selectedBooking' = sel
     /\ isModalVisible' = vis
     /\ currentIndex' = idx2
     /\ itemViews' = ItemViewsAfter(itemViews, m, on, vm, bks, idx2, now)
     /\ modal' = ModalAfter(modal, mounted, selectedBooking, m, sel, now)
     /\ pollIntervals' = PollingEffect(mounted, isOnline, m, on, pollIntervals)
     /\ pendingAnims' = [i \in 1..Len(anims) |->
                           [anims[i] EXCEPT !.sliderLive = @ /\ shown]]
     /\ decisions' = [id \in BookingIds |-> IF id \in Ids(bks) THEN dec[id] ELSE {}]

Init ==
  /\ build \in Builds
  /\ mounted = TRUE
  /\ isOnline = FALSE
  /\ viewMode = InitialViewMode(build)
  /\ bookingRequests = <<>>
  /\ selectedBooking = NoBooking
  /\ isModalVisible = FALSE
  /\ pollIntervals = 0
  /\ currentIndex = 0
  /\ itemViews = [id \in BookingIds |-> NoView]
  /\ modal = InitialModal
  /\ pendingAnims = <<>>
  /\ statusReqs = <<>>
  /\ fetchReqs = <<>>
  /\ backendOnline = FALSE
  /\ serverData \in ServerPayloads
  /\ now = 0
  /\ decisions = [id \in BookingIds |-> {}]
  /\ forgot = InitialForgot
  /\ acceptCall = InitialAcceptCall
  /\ login = InitialLogin
  /\ storage = InitialStorage
  /\ review = InitialReview
  /\ display = InitialDisplay
  /\ ride = InitialRide
  /\ out = NoOut

\* ------------------------------------------------- requests
\* the requests of the one axios client that are in flight
InFlight == Len(statusReqs) + Len(fetchReqs)

Sent(kind, arg) == [kind |-> kind, arg |-> arg]

BoolStr(b) == IF b THEN "true" ELSE "false"

\* GET /api/v1/dashboard/booking-requests leaves; the backend answers with
\* what it holds at that moment
IssueFetch(reqs) == Append(reqs, [data |-> serverData])

\* ------------------------------------------------- teardown
\* the screen unmounts: the effect cleanups run, the state of the screen is
\* gone, and the requests in flight keep running with nobody to set state on
Unmount ==
  /\ mounted
  /\ Commit(FALSE, FALSE, InitialViewMode(build), <<>>, NoBooking, FALSE, 0,
            pendingAnims, decisions)
  /\ out' = EventOn("unmount")
  /\ UNCHANGED <<build, otherVars, netVars, serverVars, now>>

\* ------------------------------------------------- online toggle
\* handleToggleOnline up to its await: newStatus = !isOnline is posted
HandleToggleOnline ==
  /\ mounted
  /\ InFlight < MaxInFlight
  /\ statusReqs' = Append(statusReqs,
                          [is_online |-> ~isOnline, processed |-> FALSE])
  /\ out' = [Event("toggle_tap") EXCEPT
               !.sent = <<Sent("online-status", BoolStr(~isOnline))>>]
  /\ UNCHANGED <<build, otherVars, dashVars, viewVars, pendingAnims, fetchReqs, serverVars,
                 now, decisions>>

\* POST /api/v1/dashboard/online-status at the backend
BackendOnlineStatus(i) ==
  /\ ~statusReqs[i].processed
  /\ backendOnline' = statusReqs[i].is_online
  /\ statusReqs' = [statusReqs EXCEPT ![i].processed = TRUE]
  /\ out' = Event("backend_status")
  /\ UNCHANGED <<build, otherVars, dashVars, viewVars, pendingAnims, fetchReqs, serverData,
                 now, decisions>>

\* the else branch of handleToggleOnline: setBookingRequests([]) when the new
\* status is offline
BookingsAfterToggleNoClear(newStatus, bks) == bks

BookingsAfterToggle(newStatus, bks) == IF newStatus THEN bks ELSE <<>>

\* handleToggleOnline after updateOnlineStatus resolved
UpdateOnlineStatusOK(i) ==
  LET r == statusReqs[i]
      newStatus == r.is_online
  IN /\ r.processed
     /\ statusReqs' = RemoveAt(statusReqs, i)
     /\ IF mounted
          THEN Commit(mounted, newStatus, viewMode,
                      BookingsAfterToggle(newStatus, bookingRequests),
                      selectedBooking, isModalVisible, currentIndex,
                      pendingAnims, decisions)
          ELSE UNCHANGED <<dashVars, viewVars, pendingAnims, decisions>>
     /\ fetchReqs' = IF newStatus THEN IssueFetch(fetchReqs) ELSE fetchReqs
     /\ out' = [EventOn(IF newStatus THEN "toggle_online" ELSE "toggle_offline") EXCEPT
                  !.sent = IF newStatus THEN <<Sent("booking-requests", "")>> ELSE <<>>,
                  !.toast = IF newStatus THEN "You are now Online"
                                         ELSE "You are now Offline"]
     /\ UNCHANGED <<build, otherVars, serverVars, now>>

\* a handleToggleOnline that sets the flag before the request is answered
UpdateOnlineStatusFailOptimistic(i) ==
  /\ statusReqs' = RemoveAt(statusReqs, i)
  /\ out' = [EventOn("toggle_failed") EXCEPT !.toast = "Failed to update online status"]
  /\ IF mounted
       THEN Commit(mounted, statusReqs[i].is_online, viewMode, bookingRequests,
                   selectedBooking, isModalVisible, currentIndex, pendingAnims,
                   decisions)
       ELSE UNCHANGED <<dashVars, viewVars, pendingAnims, decisions>>
  /\ UNCHANGED <<build, otherVars, fetchReqs, serverVars, now>>

\* handleToggleOnline when updateOnlineStatus threw
UpdateOnlineStatusFail(i) ==
  /\ statusReqs' = RemoveAt(statusReqs, i)
  /\ out' = [Event("toggle_failed") EXCEPT !.toast = "Failed to update online status"]
  /\ UNCHANGED <<build, otherVars, dashVars, viewVars, pendingAnims, fetchReqs, serverVars,
                 now, decisions>>

\* ------------------------------------------------- polling
\* the 5-second interval fires: fetchBookingRequests()
PollTick ==
  /\ pollIntervals > 0
  /\ InFlight < MaxInFlight
  /\ fetchReqs' = IssueFetch(fetchReqs)
  /\ out' = [Event("poll") EXCEPT !.sent = <<Sent("booking-requests", "")>>]
  /\ UNCHANGED <<build, otherVars, dashVars, viewVars, pendingAnims, statusReqs, serverVars,
                 now, decisions>>

\* setBookingRequests(requests || []): the state is replaced
SetBookingRequestsAppending(prevList, requests) ==
  prevList \o SelectSeq(requests, LAMBDA b : b.id \notin Ids(prevList))

SetBookingRequests(prevList, requests) == requests

\* fetchBookingRequests after getBookingRequests resolved
FetchOK(i) ==
  LET r == fetchReqs[i]
  IN /\ fetchReqs' = RemoveAt(fetchReqs, i)
     /\ IF mounted
          THEN Commit(mounted, isOnline, viewMode,
                      SetBookingRequests(bookingRequests, GetBookingRequests(r.data)),
                      selectedBooking, isModalVisible, currentIndex,
                      pendingAnims, decisions)
          ELSE UNCHANGED <<dashVars, viewVars, pendingAnims, decisions>>
     /\ out' = [EventOn("fetch_ok") EXCEPT !.req = i]
     /\ UNCHANGED <<build, otherVars, statusReqs, serverVars, now>>

FetchFailClearing(i) ==
  /\ fetchReqs' = RemoveAt(fetchReqs, i)
  /\ out' = [EventOn("fetch_failed") EXCEPT !.log = "Error fetching bookings"]
  /\ IF mounted
       THEN Commit(mounted, isOnline, viewMode, <<>>, selectedBooking,
                   isModalVisible, currentIndex, pendingAnims, decisions)
       ELSE UNCHANGED <<dashVars, viewVars, pendingAnims, decisions>>
  /\ UNCHANGED <<build, otherVars, statusReqs, serverVars, now>>

\* fetchBookingRequests when getBookingRequests threw: console.error only
FetchFail(i) ==
  /\ fetchReqs' = RemoveAt(fetchReqs, i)
  /\ out' = [EventOn("fetch_failed") EXCEPT !.log = "Error fetching bookings"]
  /\ UNCHANGED <<build, otherVars, dashVars, viewVars, pendingAnims, statusReqs, serverVars,
                 now, decisions>>

\* the backend's open bookings change
ServerUpdate ==
  /\ serverData' \in ServerPayloads \ {serverData}
  /\ out' = Event("server_update")
  /\ UNCHANGED <<build, otherVars, dashVars, viewVars, pendingAnims, netVars, backendOnline,
                 now, decisions>>

\* the backend stops listing the bookings that have expired
ServerExpire ==
  /\ serverData.hasBookings
  /\ \E k \in 1..Len(serverData.bookings) : serverData.bookings[k].expires_at <= now
  /\ serverData' = [serverData EXCEPT
                      !.bookings = SelectSeq(@, LAMBDA b : b.expires_at > now)]
  /\ out' = Event("server_expire")
  /\ UNCHANGED <<build, otherVars, dashVars, viewVars, pendingAnims, netVars, backendOnline,
                 now, decisions>>

\* ------------------------------------------------- view mode, modal
\* a view mode switch that also aborts the fetches in flight
SetViewModeCancelling(vm) ==
  /\ mounted /\ build = "base"
  /\ Commit(mounted, isOnline, vm, bookingRequests, selectedBooking,
            isModalVisible, currentIndex, pendingAnims, decisions)
  /\ fetchReqs' = <<>>
  /\ out' = Event("view_mode")
  /\ UNCHANGED <<build, otherVars, statusReqs, serverVars, now>>

\* the View Mode Toggle (the base build renders it; the map build does not)
SetViewMode(vm) ==
  /\ mounted /\ build = "base"
  /\ Commit(mounted, isOnline, vm, bookingRequests, selectedBooking,
            isModalVisible, currentIndex, pendingAnims, decisions)
  /\ out' = Event("view_mode")
  /\ UNCHANGED <<build, otherVars, netVars, serverVars, now>>

\* a list row is tapped, or the top card of the base build's slider
HandleBookingPress(id) ==
  /\ id \in Ids(bookingRequests)
  /\ \/ ListShown(mounted, isOnline, viewMode, bookingRequests)
     \/ /\ build = "base"
        /\ SliderShown(mounted, isOnline, viewMode, bookingRequests)
        /\ IsTopCard(bookingRequests, currentIndex, id)
  /\ Commit(mounted, isOnline, viewMode, bookingRequests,
            BookingOf(bookingRequests, id), TRUE, currentIndex, pendingAnims,
            decisions)
  /\ out' = [Event("booking_press") EXCEPT !.id = id]
  /\ UNCHANGED <<build, otherVars, netVars, serverVars, now>>

ModalOpen == mounted /\ isModalVisible /\ selectedBooking.id # "null"

HandleCloseModal ==
  /\ ModalOpen
  /\ Commit(mounted, isOnline, viewMode, bookingRequests, NoBooking, FALSE,
            currentIndex, pendingAnims, decisions)
  /\ out' = Event("close_modal")
  /\ UNCHANGED <<build, otherVars, netVars, serverVars, now>>

\* ------------------------------------------------- accept
\* handleAcceptBooking(bookingId): the modal is closed; the map build then
\* refreshes the bookings.  acceptBooking of services/api is called by neither.
HandleAcceptBooking(id, idx, anims, ev) ==
  LET dec == [decisions EXCEPT ![id] = @ \cup {"accepted"}]
  IN /\ build = "map" => InFlight < MaxInFlight
     /\ Commit(mounted, isOnline, viewMode, bookingRequests, NoBooking, FALSE,
               idx, anims, dec)
     /\ fetchReqs' = IF build = "map" THEN IssueFetch(fetchReqs)
                                      ELSE fetchReqs
     /\ out' = [EventOn(ev) EXCEPT
                  !.id = id,
                  !.sent = IF build = "map" THEN <<Sent("booking-requests", "")>>
                                            ELSE <<>>]
     /\ UNCHANGED <<build, otherVars, statusReqs, serverVars, now>>

\* BookingDetailModal.handleAccept: if (booking) onAccept(booking.id)
ModalHandleAccept ==
  /\ ModalOpen
  /\ HandleAcceptBooking(selectedBooking.id, currentIndex, pendingAnims, "accept")

\* a threshold that the width at the threshold itself passes
PastThresholdInclusive(dx) == dx * 100 >= ScreenWidth * 35

\* ------------------------------------------------- slider
\* gesture.dx > SWIPE_THRESHOLD, with SWIPE_THRESHOLD = SCREEN_WIDTH * 0.35
PastThreshold(dx) == dx * 100 > ScreenWidth * 35

\* gesture.dx of a release: full swipes, none, and the two widths either side
\* of SWIPE_THRESHOLD
Gestures ==
  LET t == (ScreenWidth * 35) \div 100
  IN {-ScreenWidth, -(t + 1), -t, 0, t, t + 1, ScreenWidth}

Anim(dir, id, idx, bks) ==
  [dir |-> dir, card |-> id, idx |-> idx, bks |-> bks, sliderLive |-> TRUE]

StartAnim(a, ev) ==
  /\ Len(pendingAnims) < MaxAnims
  /\ pendingAnims' = Append(pendingAnims, a)
  /\ out' = [Event(ev) EXCEPT !.id = a.card]
  /\ UNCHANGED <<build, otherVars, dashVars, viewVars, netVars, serverVars, now, decisions>>

\* onPanResponderRelease of a card: the handlers are attached while the card is
\* the top card, and the responder is granted by the isTopCard of the card's
\* first render; the callbacks it starts are those of that first render
SwipeRelease(id, dx) ==
  /\ SliderShown(mounted, isOnline, viewMode, bookingRequests)
  /\ itemViews[id].kind = "card"
  /\ IsTopCard(bookingRequests, currentIndex, id)
  /\ itemViews[id].panTop
  /\ IF PastThreshold(dx)
       THEN StartAnim(Anim("right", id, itemViews[id].panIndex,
                           itemViews[id].panBookings), "swipe_right")
     ELSE IF PastThreshold(-dx)
       THEN StartAnim(Anim("left", id, itemViews[id].panIndex,
                           itemViews[id].panBookings), "swipe_left")
     ELSE /\ out' = [Event("swipe_back") EXCEPT !.id = id]
          /\ UNCHANGED <<build, otherVars, dashVars, viewVars, pendingAnims, netVars,
                         serverVars, now, decisions>>

\* BookingCard.handleAccept / handleDecline: the buttons of the map build's
\* card, disabled unless it is the top card
CardButton(id, dir) ==
  /\ build = "map"
  /\ SliderShown(mounted, isOnline, viewMode, bookingRequests)
  /\ itemViews[id].kind = "card"
  /\ IsTopCard(bookingRequests, currentIndex, id)
  /\ StartAnim(Anim(dir, id, currentIndex, bookingRequests),
               IF dir = "right" THEN "card_accept" ELSE "card_decline")

\* setCurrentIndex((prev) => prev + 1) of a slider that may be gone
Advanced(a) == IF a.sliderLive THEN currentIndex + 1 ELSE currentIndex

\* the completion callback of an exit animation: onSwipeRight() runs
\* handleSwipeRight, onSwipeLeft() runs handleSwipeLeft, as captured
AnimationEnd ==
  /\ Len(pendingAnims) > 0
  /\ LET a == Head(pendingAnims)
         rest == Tail(pendingAnims)
     IN IF a.dir = "right" /\ a.idx < Len(a.bks)
          THEN HandleAcceptBooking(a.bks[a.idx + 1].id, Advanced(a), rest,
                                   "slider_accept")
        ELSE /\ Commit(mounted, isOnline, viewMode, bookingRequests,
                       selectedBooking, isModalVisible,
                       IF a.dir = "left" THEN Advanced(a) ELSE currentIndex, rest,
                       IF a.dir = "left" /\ a.sliderLive
                         THEN [decisions EXCEPT ![a.card] = @ \cup {"dismissed"}]
                         ELSE decisions)
             /\ out' = [Event(IF a.dir = "left" THEN "slider_dismiss"
                                                ELSE "slider_nothing") EXCEPT
                          !.id = a.card]
             /\ UNCHANGED <<build, otherVars, netVars, serverVars, now>>

\* ------------------------------------------------- time
\* a countdown interval that is due runs calculateTimeRemaining, which reads
\* the clock, and is due again one interval later
TimerFires(v, t) == v.nextFire <= t

Fired(v, t) ==
  [v EXCEPT !.timeRemaining = CalculateTimeRemaining(v.expires_at, t),
            !.nextFire = @ + IntervalMs]

\* a tick that also drops the offers whose remaining time is 0
AdvanceExpiring ==
  /\ now < MaxTicks * GranuleMs
  /\ now' = now + GranuleMs
  /\ Commit(mounted, isOnline, viewMode,
            SelectSeq(bookingRequests,
                      LAMBDA b : CalculateTimeRemaining(b.expires_at, now') > 0),
            selectedBooking, isModalVisible, currentIndex, pendingAnims, decisions)
  /\ out' = Event("tick")
  /\ UNCHANGED <<build, otherVars, netVars, serverVars>>

\* the clock moves one step; the countdown intervals that are due fire
Advance ==
  /\ now < MaxTicks * GranuleMs
  /\ now' = now + GranuleMs
  /\ itemViews' = [id \in BookingIds |->
        IF itemViews[id].kind # "none" /\ TimerFires(itemViews[id], now')
          THEN Fired(itemViews[id], now') ELSE itemViews[id]]
  /\ modal' = IF modal.timer /\ TimerFires(modal, now') THEN Fired(modal, now')
                                                       ELSE modal
  /\ decisions' = [id \in BookingIds |->
        IF /\ id \in Ids(bookingRequests)
           /\ decisions[id] = {}
           /\ ExpiresAtOf(id) <= now'
          THEN {"expired"} ELSE decisions[id]]
  /\ out' = Event("tick")
  /\ UNCHANGED <<build, otherVars, dashVars, pollIntervals, currentIndex, pendingAnims,
                 netVars, serverVars>>

\* ------------------------------------------------- forgot password
\* what the driver types into the field: nothing, a blank, an address, an
\* address between blanks
EmailInputs == {<<>>, <<" ">>, <<"a">>, <<" ", "a", " ">>}

\* router.back()
RouterBack(screen) == IF screen = "forgot" THEN "login" ELSE "before_login"

\* onChangeText={setEmailOrPhone}
SetEmailOrPhone(v) ==
  /\ forgot.screen = "forgot"
  /\ v # forgot.emailOrPhone
  /\ forgot' = [forgot EXCEPT !.emailOrPhone = v, !.event = "input"]
  /\ UNCHANGED <<build, dashVars, viewVars, pendingAnims, netVars, serverVars,
                 now, decisions, out, acceptCall, login, storage, review, display, ride>>

\* handleSendResetLink up to its await; the button is disabled while isLoading
HandleSendResetLink ==
  /\ forgot.screen = "forgot"
  /\ ~forgot.isLoading
  /\ forgot.backTimers < MaxBackTimers
  /\ forgot' =
       IF Trim(forgot.emailOrPhone) = <<>>
         THEN [forgot EXCEPT
                 !.toast = [type |-> "error", text1 |-> "Required Field",
                            text2 |-> EnterEmailText],
                 !.event = "required"]
         ELSE [forgot EXCEPT !.isLoading = TRUE,
                             !.pending = <<Trim(forgot.emailOrPhone)>>,
                             !.event = "send"]
  /\ UNCHANGED <<build, dashVars, viewVars, pendingAnims, netVars, serverVars,
                 now, decisions, out, acceptCall, login, storage, review, display, ride>>

\* the catch of handleSendResetLink: the specific toast when the message holds
\* 'not found' or 'does not exist', the generic one otherwise
ErrorToast(message) ==
  IF \/ Includes(ToLowerCase(message), NotFoundPattern)
     \/ Includes(ToLowerCase(message), DoesNotExistPattern)
    THEN [type |-> "error", text1 |-> "Email does not exist!",
          text2 |-> CheckAgainText]
    ELSE [type |-> "error", text1 |-> "Error",
          text2 |-> Or3(message, <<>>, UnableToSend)]

\* handleSendResetLink after sendPasswordResetLink settled; the state of a
\* screen that has been left is not set, the toast is global
SendResetLinkDone(r) ==
  LET res == SendPasswordResetLink(r)
      sent == res.ok /\ res.success
      here == forgot.screen = "forgot"
  IN /\ forgot.pending # <<>>
     /\ forgot' = [forgot EXCEPT
          !.pending = <<>>,
          !.last = r,
          !.event = "done",
          !.toast = IF sent
                      THEN [type |-> "success", text1 |-> "Reset Link Sent!",
                            text2 |-> Or3(res.message, <<>>, CheckEmailText)]
                    ELSE IF res.ok THEN @
                    ELSE ErrorToast(res.message),
          !.emailOrPhone = IF sent /\ here THEN <<>> ELSE @,
          !.backTimers = IF sent THEN @ + 1 ELSE @,
          !.isLoading = IF here THEN FALSE ELSE @]
     /\ UNCHANGED <<build, dashVars, viewVars, pendingAnims, netVars, serverVars,
                    now, decisions, out, acceptCall, login, storage, review, display, ride>>

\* setTimeout(() => router.back(), 2000) fires
BackTimerFires ==
  /\ forgot.backTimers > 0
  /\ forgot' = [forgot EXCEPT !.backTimers = @ - 1,
                              !.screen = RouterBack(@),
                              !.event = "back_timer"]
  /\ UNCHANGED <<build, dashVars, viewVars, pendingAnims, netVars, serverVars,
                 now, decisions, out, acceptCall, login, storage, review, display, ride>>

HandleBackToLogin ==
  /\ forgot.screen = "forgot"
  /\ forgot' = [forgot EXCEPT !.screen = RouterBack(@), !.event = "back"]
  /\ UNCHANGED <<build, dashVars, viewVars, pendingAnims, netVars, serverVars,
                 now, decisions, out, acceptCall, login, storage, review, display, ride>>

\* ------------------------------------------------- login screen
\* the variables of the dashboard, which the other screens leave alone
dashboardAll == <<build, dashVars, viewVars, pendingAnims, netVars, serverVars,
                  now, decisions, out>>

PasswordInputs == {<<>>, <<" ">>, <<"p">>}

\* onChangeText={setEmailOrUsername}
SetEmailOrUsername(v) ==
  /\ login.screen = "login"
  /\ v # login.emailOrUsername
  /\ login' = [login EXCEPT !.emailOrUsername = v, !.event = "input"]
  /\ UNCHANGED <<dashboardAll, forgot, acceptCall, storage, review, display, ride>>

\* onChangeText={setPassword}
SetPassword(v) ==
  /\ login.screen = "login"
  /\ v # login.password
  /\ login' = [login EXCEPT !.password = v, !.event = "input"]
  /\ UNCHANGED <<dashboardAll, forgot, acceptCall, storage, review, display, ride>>

\* handleLogin up to its await; the button is disabled while isLoading
HandleLogin ==
  /\ login.screen = "login"
  /\ ~login.isLoading
  /\ login' =
       IF Trim(login.emailOrUsername) = <<>> \/ Trim(login.password) = <<>>
         THEN [login EXCEPT !.alert = "Required Field", !.alertText = <<>>,
                            !.event = "required"]
         ELSE [login EXCEPT
                 !.isLoading = TRUE,
                 !.pending = <<[email_or_username |-> Trim(login.emailOrUsername),
                                password |-> login.password]>>,
                 !.event = "send"]
  /\ UNCHANGED <<dashboardAll, forgot, acceptCall, storage, review, display, ride>>

\* a handleLogin that stores whatever data the response carries
StorageAfterLoginUnchecked(res, st) == IF res.ok /\ res.hasData THEN StoredLogin ELSE st

\* if (response.success && response.data) the four items are stored
StorageAfterLogin(res, st) ==
  IF res.ok /\ res.success /\ res.hasData THEN StoredLogin ELSE st

\* handleLogin after loginDriver settled
LoginDone(r) ==
  LET res == LoginDriver(r)
      good == res.ok /\ res.success /\ res.hasData
  IN /\ login.pending # <<>>
     /\ storage' = StorageAfterLogin(res, storage)
     /\ login' = [login EXCEPT
          !.pending = <<>>,
          !.last = r,
          !.event = "done",
          !.alert = IF good THEN "Success"
                    ELSE IF res.ok THEN @ ELSE "Login Failed",
          !.alertText = IF good THEN <<>>
                        ELSE IF res.ok THEN @
                        ELSE Or3(res.message, <<>>, CheckCredentialsText),
          !.isLoading = FALSE]
     /\ UNCHANGED <<dashboardAll, forgot, acceptCall, review, display, ride>>

\* OK of the Success alert: router.replace('/')
LoginAlertOk ==
  /\ login.alert = "Success"
  /\ login.screen = "login"
  /\ login' = [login EXCEPT !.screen = "index", !.alert = "none",
                            !.event = "replace"]
  /\ UNCHANGED <<dashboardAll, forgot, acceptCall, storage, review, display, ride>>

\* ------------------------------------------------- review screen
\* registration.tsx: router.push of '/(auth)/review' mounts a new ReviewScreen
ReviewDetails ==
  /\ review.screen = "registration"
  /\ review.inst < MaxReviews
  /\ review' = [review EXCEPT !.screen = "review", !.inst = @ + 1,
                              !.isSubmitting = FALSE, !.event = "push"]
  /\ UNCHANGED <<dashboardAll, forgot, acceptCall, login, storage, display, ride>>

\* handleGoBack: router.back(); the button is not disabled while submitting
HandleGoBack ==
  /\ review.screen = "review"
  /\ review' = [review EXCEPT !.screen = "registration", !.event = "back"]
  /\ UNCHANGED <<dashboardAll, forgot, acceptCall, login, storage, display, ride>>

\* handleSubmit up to its await; the button is disabled while isSubmitting
HandleSubmit ==
  /\ review.screen = "review"
  /\ ~review.isSubmitting
  /\ review' = [review EXCEPT !.isSubmitting = TRUE,
                              !.pending = Append(@, review.inst),
                              !.event = "submit"]
  /\ UNCHANGED <<dashboardAll, forgot, acceptCall, login, storage, display, ride>>

\* handleSubmit after registerDriver settled, in the ReviewScreen that sent it:
\* router.replace replaces the screen on top; setIsSubmitting reaches only a
\* ReviewScreen that is still mounted
RegisterDone(i, r) ==
  LET res == RegisterDriver(r)
      mine == review.screen = "review" /\ review.pending[i] = review.inst
  IN /\ i \in 1..Len(review.pending)
     /\ review' = [review EXCEPT
          !.pending = RemoveAt(@, i),
          !.screen = IF res.ok THEN "success" ELSE @,
          !.alert = IF res.ok THEN @ ELSE Or3(res.message, <<>>, PleaseTryAgainText),
          !.isSubmitting = IF mine THEN FALSE ELSE @,
          !.last = IF res.ok THEN "resolved" ELSE "rejected",
          !.event = "done"]
     /\ UNCHANGED <<dashboardAll, forgot, acceptCall, login, storage, display, ride>>

\* ------------------------------------------------- rendering an offer
\* BookingListItem, SwipeableCard or BookingDetailModal renders an offer
Render(view, booking) ==
  /\ display' = RenderOffer(view, booking)
  /\ display' # display
  /\ UNCHANGED <<dashboardAll, forgot, acceptCall, login, storage, review, ride>>

\* ------------------------------------------------- active ride screen
\* the title of the Alert that handleArrived shows in a rideStatus
ArrivedAlert(rideStatus) ==
  IF rideStatus = "en_route_pickup" THEN "Arrived at Pickup"
  ELSE IF rideStatus = "at_pickup" THEN "Start Ride"
  ELSE IF rideStatus = "en_route_dropoff" THEN "Complete Ride"
  ELSE "none"

\* a confirmation that goes from the pickup route straight to the dropoff route
RideStatusAfterSkipping(alert, rideStatus) ==
  IF alert = "Arrived at Pickup" THEN "en_route_dropoff"
  ELSE IF alert = "Start Ride" THEN "en_route_dropoff"
  ELSE IF alert = "Complete Ride" THEN "at_dropoff"
  ELSE rideStatus

\* the setRideStatus of the confirming button of each Alert
RideStatusAfter(alert, rideStatus) ==
  IF alert = "Arrived at Pickup" THEN "at_pickup"
  ELSE IF alert = "Start Ride" THEN "en_route_dropoff"
  ELSE IF alert = "Complete Ride" THEN "at_dropoff"
  ELSE rideStatus

\* the Toast of the confirming button of each Alert
RideToast(alert) ==
  IF alert = "Arrived at Pickup" THEN "Arrived"
  ELSE IF alert = "Start Ride" THEN "Ride Started"
  ELSE IF alert = "Complete Ride" THEN "Ride Completed"
  ELSE "Ride Cancelled"

\* the screen is on top and no Alert covers it
RideButtons == ride.screen = "active-ride" /\ ride.alert = "none"

\* handleArrived: an Alert for the rideStatus of this render, none at_dropoff
HandleArrived ==
  /\ RideButtons
  /\ ride' = [ride EXCEPT !.alert = ArrivedAlert(ride.rideStatus),
                          !.event = "arrived"]
  /\ ride' # ride
  /\ UNCHANGED <<dashboardAll, forgot, acceptCall, login, storage, review, display>>

\* handleCancelRide: the Cancel Ride Alert
HandleCancelRide ==
  /\ RideButtons
  /\ ride' = [ride EXCEPT !.alert = "Cancel Ride", !.event = "cancel_ride"]
  /\ UNCHANGED <<dashboardAll, forgot, acceptCall, login, storage, review, display>>

\* the Cancel / No button of an Alert
AlertCancel ==
  /\ ride.alert # "none"
  /\ ride' = [ride EXCEPT !.alert = "none", !.event = "alert_cancel"]
  /\ UNCHANGED <<dashboardAll, forgot, acceptCall, login, storage, review, display>>

\* the confirming button of an Alert: its onPress; the waiting-time effect
\* resets the timer when rideStatus is no longer at_pickup
AlertConfirm ==
  /\ ride.alert # "none"
  /\ ride.alert = "Complete Ride" => ride.completedTimers < MaxRideTimers
  /\ ride.alert = "Cancel Ride" => ride.cancelTimers < MaxRideTimers
  /\ LET status == RideStatusAfter(ride.alert, ride.rideStatus)
     IN ride' = [ride EXCEPT
          !.rideStatus = status,
          !.alert = "none",
          !.toast = RideToast(ride.alert),
          !.waitingSeconds = IF status = "at_pickup" THEN @ ELSE 0,
          !.completedTimers = IF ride.alert = "Complete Ride" THEN @ + 1 ELSE @,
          !.cancelTimers = IF ride.alert = "Cancel Ride" THEN @ + 1 ELSE @,
          !.event = "alert_confirm"]
  /\ UNCHANGED <<dashboardAll, forgot, acceptCall, login, storage, review, display>>

\* the 1-second interval of the waiting-time effect, which runs at_pickup
WaitingTick ==
  /\ ride.screen # "dashboard"
  /\ ride.rideStatus = "at_pickup"
  /\ ride.waitingSeconds < MaxWaitingSeconds
  /\ ride' = [ride EXCEPT !.waitingSeconds = @ + 1, !.event = "waiting_tick"]
  /\ UNCHANGED <<dashboardAll, forgot, acceptCall, login, storage, review, display>>

\* the setTimeout of Complete: router.push of '/(dashboard)/ride-completed'
CompletedTimerFires ==
  /\ ride.completedTimers > 0
  /\ ride' = [ride EXCEPT !.completedTimers = @ - 1,
                          !.screen = "ride-completed",
                          !.pushes = @ + 1,
                          !.event = "push_completed"]
  /\ UNCHANGED <<dashboardAll, forgot, acceptCall, login, storage, review, display>>

\* the setTimeout of Yes, Cancel: router.replace('/(dashboard)')
CancelTimerFires ==
  /\ ride.cancelTimers > 0
  /\ ride' = [ride EXCEPT !.cancelTimers = @ - 1, !.screen = "dashboard",
                          !.event = "replace_dashboard"]
  /\ UNCHANGED <<dashboardAll, forgot, acceptCall, login, storage, review, display>>

\* ------------------------------------------------- acceptBooking
\* acceptBooking(bookingId) posts to /dashboard/bookings/{id}/accept
AcceptBookingStart(id) ==
  /\ acceptCall.state # "pending"
  /\ acceptCall' = [InitialAcceptCall EXCEPT !.state = "pending", !.id = id]
  /\ UNCHANGED <<build, dashVars, viewVars, pendingAnims, netVars, serverVars,
                 now, decisions, out, forgot, login, storage, review, display, ride>>

\* acceptBooking returns response.data or throws
AcceptBookingDone(r) ==
  /\ acceptCall.state = "pending"
  /\ acceptCall' = [acceptCall EXCEPT !.state = "done", !.resp = r,
                                      !.result = AcceptBooking(r)]
  /\ UNCHANGED <<build, dashVars, viewVars, pendingAnims, netVars, serverVars,
                 now, decisions, out, forgot, login, storage, review, display, ride>>

\* ------------------------------------------------- specification
Next ==
  \/ Unmount
  \/ HandleToggleOnline
  \/ \E i \in 1..Len(statusReqs) : BackendOnlineStatus(i)
  \/ \E i \in 1..Len(statusReqs) : UpdateOnlineStatusOK(i)
  \/ \E i \in 1..Len(statusReqs) : UpdateOnlineStatusFail(i)
  \/ PollTick
  \/ \E i \in 1..Len(fetchReqs) : FetchOK(i)
  \/ \E i \in 1..Len(fetchReqs) : FetchFail(i)
  \/ ServerUpdate
  \/ ServerExpire
  \/ \E vm \in {"list", "slider"} : SetViewMode(vm)
  \/ \E id \in BookingIds : HandleBookingPress(id)
  \/ HandleCloseModal
  \/ ModalHandleAccept
  \/ \E id \in BookingIds, dx \in Gestures : SwipeRelease(id, dx)
  \/ \E id \in BookingIds, dir \in {"left", "right"} : CardButton(id, dir)
  \/ AnimationEnd
  \/ Advance
  \/ \E v \in EmailInputs : SetEmailOrPhone(v)
  \/ HandleSendResetLink
  \/ \E r \in ResetResponses : SendResetLinkDone(r)
  \/ BackTimerFires
  \/ HandleBackToLogin
  \/ \E id \in BookingIds : AcceptBookingStart(id)
  \/ \E r \in AcceptResponses : AcceptBookingDone(r)
  \/ \E v \in EmailInputs : SetEmailOrUsername(v)
  \/ \E v \in PasswordInputs : SetPassword(v)
  \/ HandleLogin
  \/ \E r \in LoginResponses : LoginDone(r)
  \/ LoginAlertOk
  \/ ReviewDetails
  \/ HandleGoBack
  \/ HandleSubmit
  \/ \E i \in 1..MaxReviews, r \in RegisterResponses : RegisterDone(i, r)
  \/ \E view \in Views, booking \in WireOffers : Render(view, booking)
  \/ HandleArrived
  \/ HandleCancelRide
  \/ AlertCancel
  \/ AlertConfirm
  \/ WaitingTick
  \/ CompletedTimerFires
  \/ CancelTimerFires

Spec == Init /\ [][Next]_vars

\* the dashboard without its booking views: the toggle, the poll, the fetches
NextDash ==
  \/ Unmount
  \/ HandleToggleOnline
  \/ \E i \in 1..Len(statusReqs) : BackendOnlineStatus(i)
  \/ \E i \in 1..Len(statusReqs) : UpdateOnlineStatusOK(i)
  \/ \E i \in 1..Len(statusReqs) : UpdateOnlineStatusFail(i)
  \/ PollTick
  \/ \E i \in 1..Len(fetchReqs) : FetchOK(i)
  \/ \E i \in 1..Len(fetchReqs) : FetchFail(i)
  \/ ServerUpdate

SpecDash == Init /\ [][NextDash]_vars

\* the offers of an online driver: the views, the countdowns, the decisions.
\* It starts where the driver has gone online and the first fetch has come
\* back, before the clock has moved.
InitOffers ==
  /\ build \in Builds
  /\ mounted = TRUE
  /\ isOnline = TRUE
  /\ viewMode = InitialViewMode(build)
  /\ bookingRequests \in BookingLists \ {<<>>}
  /\ selectedBooking = NoBooking
  /\ isModalVisible = FALSE
  /\ pollIntervals = 1
  /\ currentIndex = 0
  /\ itemViews = ItemViewsAfter([id \in BookingIds |-> NoView], TRUE, TRUE,
                                viewMode, bookingRequests, 0, 0)
  /\ modal = InitialModal
  /\ pendingAnims = <<>>
  /\ statusReqs = <<>>
  /\ fetchReqs = <<>>
  /\ backendOnline = TRUE
  /\ serverData = [hasBookings |-> TRUE, bookings |-> bookingRequests]
  /\ now = 0
  /\ decisions = [id \in BookingIds |-> {}]
  /\ forgot = InitialForgot
  /\ acceptCall = InitialAcceptCall
  /\ login = InitialLogin
  /\ storage = InitialStorage
  /\ review = InitialReview
  /\ display = InitialDisplay
  /\ ride = InitialRide
  /\ out = [EventOn("fetch_ok") EXCEPT !.prev = <<>>]

NextOffers ==
  \/ \E i \in 1..Len(fetchReqs) : FetchOK(i)
  \/ \E vm \in {"list", "slider"} : SetViewMode(vm)
  \/ \E id \in BookingIds : HandleBookingPress(id)
  \/ HandleCloseModal
  \/ ModalHandleAccept
  \/ \E id \in BookingIds, dx \in Gestures : SwipeRelease(id, dx)
  \/ \E id \in BookingIds, dir \in {"left", "right"} : CardButton(id, dir)
  \/ AnimationEnd
  \/ Advance

SpecOffers == InitOffers /\ [][NextOffers]_vars

\* an online driver looks at the stack of a list that was fetched
InitStack ==
  /\ build \in Builds
  /\ mounted = TRUE
  /\ isOnline = TRUE
  /\ viewMode = "slider"
  /\ bookingRequests \in BookingLists \ {<<>>}
  /\ selectedBooking = NoBooking
  /\ isModalVisible = FALSE
  /\ pollIntervals = 1
  /\ currentIndex = 0
  /\ itemViews = ItemViewsAfter([id \in BookingIds |-> NoView], TRUE, TRUE,
                                viewMode, bookingRequests, 0, 0)
  /\ modal = InitialModal
  /\ pendingAnims = <<>>
  /\ statusReqs = <<>>
  /\ fetchReqs = <<>>
  /\ backendOnline = TRUE
  /\ serverData = [hasBookings |-> TRUE, bookings |-> bookingRequests]
  /\ now = 0
  /\ decisions = [id \in BookingIds |-> {}]
  /\ forgot = InitialForgot
  /\ acceptCall = InitialAcceptCall
  /\ login = InitialLogin
  /\ storage = InitialStorage
  /\ review = InitialReview
  /\ display = InitialDisplay
  /\ ride = InitialRide
  /\ out = [EventOn("fetch_ok") EXCEPT !.prev = <<>>]

\* the stack of an online driver while the backend's list changes: swipes,
\* card buttons, exits that complete, polls and their responses
NextStack ==
  \/ fetchReqs = <<>> /\ PollTick
  \/ \E i \in 1..Len(fetchReqs) : FetchOK(i)
  \/ fetchReqs = <<>> /\ ServerUpdate
  \/ \E id \in BookingIds, dx \in Gestures : SwipeRelease(id, dx)
  \/ \E id \in BookingIds, dir \in {"left", "right"} : CardButton(id, dir)
  \/ AnimationEnd

SpecStack == InitStack /\ [][NextStack]_vars

\* the stack while the backend's list stays as it is: swipes, card buttons,
\* exits that complete, polls and their responses, view mode
NextSwipe ==
  \/ fetchReqs = <<>> /\ PollTick
  \/ \E i \in 1..Len(fetchReqs) : FetchOK(i)
  \/ \E vm \in {"list", "slider"} : SetViewMode(vm)
  \/ \E id \in BookingIds, dx \in Gestures : SwipeRelease(id, dx)
  \/ \E id \in BookingIds, dir \in {"left", "right"} : CardButton(id, dir)
  \/ AnimationEnd

SpecSwipe == InitStack /\ [][NextSwipe]_vars

\* the offers of an online driver who takes no decision: the clock, the
\* polls and their responses, the backend's expiry, the view mode
NextExpiry ==
  \/ Advance
  \/ PollTick
  \/ \E i \in 1..Len(fetchReqs) : FetchOK(i)
  \/ \E i \in 1..Len(fetchReqs) : FetchFail(i)
  \/ ServerExpire
  \/ \E vm \in {"list", "slider"} : SetViewMode(vm)

SpecExpiry == InitOffers /\ [][NextExpiry]_vars

\* the countdowns of an online driver who looks at the offers: the clock, the
\* views that mount and unmount, the polls and their responses.  The clock
\* covers less than the 5 seconds of the poll interval, so one poll is in
\* flight at a time.
NextCountdown ==
  \/ Advance
  \/ \E vm \in {"list", "slider"} : SetViewMode(vm)
  \/ \E id \in BookingIds : HandleBookingPress(id)
  \/ HandleCloseModal
  \/ fetchReqs = <<>> /\ PollTick
  \/ \E i \in 1..Len(fetchReqs) : FetchOK(i)
  \/ ServerExpire

SpecCountdown == InitOffers /\ [][NextCountdown]_vars

\* services/api and the forgot-password screen, with the dashboard at rest
InitApi == Init /\ build = "base" /\ ~serverData.hasBookings

NextApi ==
  \/ \E v \in EmailInputs : SetEmailOrPhone(v)
  \/ HandleSendResetLink
  \/ \E r \in ResetResponses : SendResetLinkDone(r)
  \/ BackTimerFires
  \/ HandleBackToLogin
  \/ \E id \in BookingIds : AcceptBookingStart(id)
  \/ \E r \in AcceptResponses : AcceptBookingDone(r)

SpecApi == InitApi /\ [][NextApi]_vars

\* the login screen
NextLogin ==
  \/ \E v \in EmailInputs : SetEmailOrUsername(v)
  \/ \E v \in PasswordInputs : SetPassword(v)
  \/ HandleLogin
  \/ \E r \in LoginResponses : LoginDone(r)
  \/ LoginAlertOk

SpecLogin == InitApi /\ [][NextLogin]_vars

\* the registration, review and success screens
NextReview ==
  \/ ReviewDetails
  \/ HandleGoBack
  \/ HandleSubmit
  \/ \E i \in 1..MaxReviews, r \in RegisterResponses : RegisterDone(i, r)

SpecReview == InitApi /\ [][NextReview]_vars

\* the three views of an offer
NextRender == \E view \in Views, booking \in WireOffers : Render(view, booking)

SpecRender == InitApi /\ [][NextRender]_vars

\* the active ride screen
NextRide ==
  \/ HandleArrived
  \/ HandleCancelRide
  \/ AlertCancel
  \/ AlertConfirm
  \/ WaitingTick
  \/ CompletedTimerFires
  \/ CancelTimerFires

SpecRide == InitApi /\ [][NextRide]_vars

\* ===================================================== claims
\* C1: when the online toggle succeeds on the mounted dashboard with new status
\* offline, the bookings are empty, the poll interval is cleared and nothing is
\* sent; with new status online, the poll interval runs and one
\* booking-requests fetch leaves at once.
C1_ToggleTransitions ==
  [][/\ (mounted /\ out'.event = "toggle_offline") =>
          /\ bookingRequests' = <<>>
          /\ ~isOnline'
          /\ pollIntervals' = 0
          /\ fetchReqs' = fetchReqs
          /\ Len(statusReqs') = Len(statusReqs) - 1
          /\ out'.sent = <<>>
     /\ (mounted /\ out'.event = "toggle_online") =>
          /\ isOnline'
          /\ pollIntervals' = 1
          /\ fetchReqs' = Append(fetchReqs, [data |-> serverData])
          /\ Len(statusReqs') = Len(statusReqs) - 1]_vars

\* the driver went offline with offers on the screen
C1_Witness ==
  /\ mounted /\ out.event = "toggle_offline"
  /\ out.prevOnline /\ out.prev # <<>>
  /\ bookingRequests = <<>> /\ pollIntervals = 0

\* C2: when a booking-requests fetch succeeds on the mounted dashboard, the
\* bookings become exactly the list of that response, in its order (the empty
\* list when the response has no bookings field).
C2_FetchReplaces ==
  [][(mounted /\ out'.event = "fetch_ok") =>
       \E i \in 1..Len(fetchReqs) :
         /\ fetchReqs' = RemoveAt(fetchReqs, i)
         /\ bookingRequests' = IF fetchReqs[i].data.hasBookings
                                 THEN fetchReqs[i].data.bookings ELSE <<>>]_vars

\* a response that lacks an offer of the previous set, and brings another
C2_Witness ==
  /\ mounted /\ out.event = "fetch_ok"
  /\ bookingRequests # <<>>
  /\ \E id \in Ids(out.prev) : id \notin Ids(bookingRequests)

C4_OnePollTimer == pollIntervals = (IF mounted /\ isOnline THEN 1 ELSE 0)

\* the screen was torn down while online
C4_Witness ==
  /\ out.event = "unmount" /\ out.prevOnline
  /\ ~mounted /\ pollIntervals = 0

\* the steps in which handleAcceptBooking runs
AcceptEvents == {"accept", "slider_accept"}

\* C5: whenever the accept handler has run for an offer (from the modal's
\* Accept Ride, from a right swipe or from a card's Accept button), the step
\* has sent POST /bookings/{id}/accept with the identifier of that offer.
C5_AcceptCallsBackend ==
  (mounted /\ out.event \in AcceptEvents) =>
     \E k \in 1..Len(out.sent) : out.sent[k] = Sent("accept", out.id)

\* C6: the step in which an accept decision on an offer completes takes that
\* offer out of the bookings and leaves every other offer in place.
C6_AcceptRemovesOffer ==
  [][(mounted /\ out'.event \in AcceptEvents) =>
       bookingRequests' = SelectSeq(bookingRequests,
                                    LAMBDA b : b.id # out'.id)]_vars

\* C7: an accept of an offer that has been accepted already is a no-op: the
\* bookings and the slider index stay as they were, and no request leaves.
C7_SecondAcceptNoOp ==
  [][(mounted /\ out'.event \in AcceptEvents
        /\ "accepted" \in decisions[out'.id]) =>
       /\ bookingRequests' = bookingRequests
       /\ currentIndex' = currentIndex
       /\ netVars' = netVars
       /\ out'.sent = <<>>]_vars

\* C8: no offer of the bookings has reached more than one of the terminal
\* states accepted, dismissed and expired.
C8_OneTerminalState ==
  \A id \in BookingIds : Cardinality(decisions[id]) <= 1

\* C9: the accept handler never runs for an offer whose expiry timestamp is at
\* or before the current time.
C9_NoAcceptOfExpired ==
  (mounted /\ out.event \in AcceptEvents) => now < ExpiresAtOf(out.id)

\* C10: no row of the list and no card of the slider is still on the screen
\* at a countdown tick that comes one interval or more after the expiry
\* timestamp of its offer, that is, at the tick after the one that showed 0.
C10_ExpiredGoneOnNextTick ==
  \A id \in BookingIds :
    itemViews[id].kind # "none" =>
      itemViews[id].nextFire - IntervalMs < itemViews[id].expires_at + IntervalMs

\* max(0, floor((expires_at - now) / 1000)), written out
RemainingSeconds(expiresAt, t) ==
  LET q == (expiresAt - t) \div 1000 IN IF q > 0 THEN q ELSE 0

C12_ViewsAgree ==
  (ModalOpen /\ modal.timer) =>
    \A id \in BookingIds :
      (id = selectedBooking.id /\ itemViews[id].kind # "none"
         /\ itemViews[id].expires_at = modal.expires_at) =>
        itemViews[id].timeRemaining = modal.timeRemaining

\* C13: a countdown tick changes only the remaining time (and the next due
\* time) of the views whose interval fired: the bookings, the online flag, the
\* selected booking, the modal's visibility, the view mode, the poll interval
\* and the requests in flight are unchanged, no request is sent, and no view
\* mounts, unmounts or changes its offer.
C13_TickFrame ==
  [][out'.event = "tick" =>
       /\ bookingRequests' = bookingRequests
       /\ isOnline' = isOnline
       /\ selectedBooking' = selectedBooking
       /\ isModalVisible' = isModalVisible
       /\ viewMode' = viewMode
       /\ currentIndex' = currentIndex
       /\ pollIntervals' = pollIntervals
       /\ netVars' = netVars
       /\ serverVars' = serverVars
       /\ out'.sent = <<>>
       /\ \A id \in BookingIds :
            itemViews'[id] = [itemViews[id] EXCEPT
                                !.timeRemaining = itemViews'[id].timeRemaining,
                                !.nextFire = itemViews'[id].nextFire]
       /\ modal' = [modal EXCEPT !.timeRemaining = modal'.timeRemaining,
                                 !.nextFire = modal'.nextFire]]_vars

\* a tick fired the interval of an expired offer's view while a fetch was in
\* flight and the poll interval was running
C13_Witness ==
  /\ out.event = "tick"
  /\ pollIntervals = 1 /\ fetchReqs # <<>>
  /\ \E id \in Ids(bookingRequests) :
       /\ itemViews[id].kind # "none"
       /\ itemViews[id].nextFire = now + IntervalMs
       /\ itemViews[id].timeRemaining = 0
       /\ now >= itemViews[id].expires_at

\* C14: a press on the View Mode Toggle changes the view mode and nothing else
\* of the dashboard: the bookings, the online flag, the poll interval and the
\* requests in flight are unchanged and nothing is sent; a fetch that was in
\* flight can still complete, and when it does the bookings become its response.
C14_ViewModeFrame ==
  /\ [][out'.event = "view_mode" =>
          /\ bookingRequests' = bookingRequests
          /\ isOnline' = isOnline
          /\ pollIntervals' = pollIntervals
          /\ netVars' = netVars
          /\ selectedBooking' = selectedBooking
          /\ out'.sent = <<>>]_vars
  /\ []((out.event = "view_mode" /\ fetchReqs # <<>>) =>
          ENABLED (FetchOK(1) /\ bookingRequests' = GetBookingRequests(fetchReqs[1].data)))

\* the driver switched from the list to the slider while a fetch was in flight
C14_Witness ==
  /\ out.event = "view_mode" /\ viewMode = "slider"
  /\ Len(bookingRequests) = 2
  /\ fetchReqs # <<>>
  /\ itemViews[bookingRequests[1].id].kind = "card"

\* C15: the step in which a left swipe dismisses an offer sends no request and
\* takes the offer out of the bookings.
C15_DismissRemoves ==
  [][(mounted /\ out'.event = "slider_dismiss") =>
       /\ out'.sent = <<>>
       /\ netVars' = netVars
       /\ out'.id \notin Ids(bookingRequests')]_vars

\* C16: when a fetch completes while an older fetch is still in flight, and the
\* older one completes next, the response of the older one is discarded: the
\* bookings stay those of the newer response.
C16_StaleDiscarded ==
  [][(mounted /\ out.event = "fetch_ok" /\ out.req > 1
        /\ out'.event = "fetch_ok" /\ out'.req = 1) =>
       bookingRequests' = bookingRequests]_vars

\* C17: while the driver is offline the bookings of the mounted dashboard are
\* empty.
C17_OfflineEmpty == (mounted /\ ~isOnline) => bookingRequests = <<>>

\* the kinds of failure of an accept call
FailureKind(r) ==
  IF r.type = "response" /\ r.status = 404 THEN "not-found"
  ELSE IF r.type = "response" /\ r.status = 409 THEN "conflict"
  ELSE IF r.type = "response" /\ r.status = 410 THEN "expired"
  ELSE "generic"

\* C18: the error a failed acceptBooking call throws tells the kind of the
\* failure: no response of another kind makes acceptBooking throw the same
\* error.
C18_ErrorKindDistinct ==
  (acceptCall.state = "done" /\ ~acceptCall.result.ok) =>
    \A r \in AcceptResponses :
      (r.type # "data" /\ AcceptBooking(r) = acceptCall.result) =>
        FailureKind(r) = FailureKind(acceptCall.resp)

\* C20: when the reset request has failed with the 404 whose detail is "No
\* account found with that email or phone number", the toast on the screen is
\* the one titled "Email does not exist!".
C20_NotFoundToast ==
  (forgot.event = "done" /\ forgot.last = HttpError(404, NoAccountDetail, <<>>)) =>
    forgot.toast.text1 = "Email does not exist!"

\* C19: while the slider is shown and an offer remains at or after the current
\* index, the cards on the screen are the first two remaining offers (one card
\* when one remains), and the first remaining offer is the top card: it has
\* isTopCard, and its PanResponder grants the gesture.
C19_TopCardInteractive ==
  (SliderShown(mounted, isOnline, viewMode, bookingRequests)
     /\ currentIndex < Len(bookingRequests)) =>
    LET front == bookingRequests[currentIndex + 1].id
        last == Min2(currentIndex + 2, Len(bookingRequests))
    IN /\ {id \in BookingIds : itemViews[id].kind = "card"}
            = {bookingRequests[k].id : k \in (currentIndex + 1)..last}
       /\ IsTopCard(bookingRequests, currentIndex, front)
       /\ itemViews[front].panTop

\* C21: AsyncStorage changes only in the step that ends a login whose response
\* has success = true and data; a press on Log In with an empty or blank
\* email/username or password sends nothing; a login that ends otherwise leaves
\* AsyncStorage as it was; and every login ends with isLoading = false.
C21_TokenOnlyAfterSuccess ==
  [][/\ storage' # storage =>
          /\ login'.event = "done" /\ login.pending # <<>>
          /\ login'.last.type = "data"
          /\ login'.last.success /\ login'.last.hasData
          /\ storage'.access_token = "data.access_token"
     /\ (login' # login /\ login.pending = <<>> /\ login'.pending # <<>>) =>
          /\ \E i \in 1..Len(login.emailOrUsername) : login.emailOrUsername[i] # " "
          /\ \E i \in 1..Len(login.password) : login.password[i] # " "
     /\ (login.pending # <<>> /\ login'.pending = <<>>) =>
          /\ ~login'.isLoading
          /\ ~(login'.last.type = "data" /\ login'.last.success
                 /\ login'.last.hasData) => storage' = storage]_vars

\* a login was refused with 401: nothing is stored and the loading flag is off
C21_Witness ==
  /\ login.event = "done"
  /\ login.last = LoginError(HttpError(401, InvalidCredentialsDetail, <<>>))
  /\ login.alert = "Login Failed"
  /\ ~login.isLoading
  /\ storage = InitialStorage

\* C22: at most one registration request is in flight at any time; the success
\* screen is reached only by the step in which registerDriver resolved; and
\* after a submission failed the user is on the review screen with
\* isSubmitting = false, so that Confirm & Submit can be pressed again.
C22_OneSubmissionAtATime ==
  [][/\ Len(review'.pending) <= 1
     /\ (review'.screen = "success" /\ review.screen # "success") =>
          (review'.event = "done" /\ review'.last = "resolved")
     /\ (Len(review'.pending) < Len(review.pending)
           /\ review'.last = "rejected") =>
          (review'.screen = "review" /\ ~review'.isSubmitting
             /\ ENABLED HandleSubmit)]_vars

\* C23: what a list row, a stack card or the modal shows of an offer has the
\* fare, the distance, the pickup and the dropoff of the wire payload, with no
\* change, rounding or truncation.
C23_FieldsPreserved ==
  display.view # "none" =>
    /\ ValueOf(display.fare) = display.booking.fare
    /\ ValueOf(display.distance) = display.booking.distance
    /\ display.pickup_location = display.booking.pickup_location
    /\ display.dropoff_location = display.booking.dropoff_location

\* C24: a release on the top card with gesture.dx beyond 35% of the screen
\* width to the right starts exactly one exit whose completion is one accept
\* of that offer; beyond 35% to the left, one exit whose completion is one
\* dismiss of that card; at or within the threshold nothing is decided: no
\* exit starts and the stack position stays.
C24_SwipeThreshold ==
  [][/\ \A id \in BookingIds, dx \in Gestures :
          SwipeRelease(id, dx) =>
            IF dx * 100 > ScreenWidth * 35
              THEN /\ Len(pendingAnims') = Len(pendingAnims) + 1
                   /\ LET a == pendingAnims'[Len(pendingAnims')]
                      IN a.dir = "right" /\ a.card = id
                           /\ a.idx < Len(a.bks) /\ a.bks[a.idx + 1].id = id
                   /\ currentIndex' = currentIndex /\ decisions' = decisions
            ELSE IF dx * 100 < -(ScreenWidth * 35)
              THEN /\ Len(pendingAnims') = Len(pendingAnims) + 1
                   /\ LET a == pendingAnims'[Len(pendingAnims')]
                      IN a.dir = "left" /\ a.card = id
                   /\ currentIndex' = currentIndex /\ decisions' = decisions
            ELSE /\ pendingAnims' = pendingAnims
                 /\ currentIndex' = currentIndex
                 /\ decisions' = decisions
                 /\ bookingRequests' = bookingRequests
     /\ Len(pendingAnims') < Len(pendingAnims) =>
          /\ Len(pendingAnims') = Len(pendingAnims) - 1
          /\ out'.id = Head(pendingAnims).card
          /\ Head(pendingAnims).dir = "right" =>
               out'.event = "slider_accept"
          /\ Head(pendingAnims).dir = "left" => out'.event = "slider_dismiss"]_vars

\* in the build whose cards have no buttons, a swipe to the right was released
\* and its exit has completed with the accept of the card
C24_Witness ==
  /\ build = "base"
  /\ out.event = "slider_accept"
  /\ "accepted" \in decisions[out.id]
  /\ pendingAnims = <<>>

\* C25: the decision that an exit delivers applies to one offer, the card of
\* the gesture or press, which is the card at the stack position when the
\* decision is applied; the accept names that offer; and the decision moves
\* the stack position by exactly one, also after a second press during the
\* exit and after a refresh during the exit.
C25_OneDecisionPerOffer ==
  [][Len(pendingAnims') < Len(pendingAnims) =>
       LET a == Head(pendingAnims)
       IN /\ out'.id = a.card
          /\ currentIndex < Len(bookingRequests)
          /\ bookingRequests[currentIndex + 1].id = a.card
          /\ currentIndex' = currentIndex + 1]_vars

\* C26: while the stack is shown, every offer of the current list that no
\* decision was applied to is at or after the stack position; so a refresh
\* skips no undecided offer and "All caught up!" (the position is at the end
\* of the list) shows only when no offer of the list is undecided.  Checked on
\* the refresh: a response that finds the stack so leaves it so.
UndecidedAhead ==
  SliderShown(mounted, isOnline, viewMode, bookingRequests) =>
    \A i \in 1..Len(bookingRequests) :
      decisions[bookingRequests[i].id] = {} => i > currentIndex

C26_RefreshSkipsNothing ==
  [][(UndecidedAhead /\ Len(fetchReqs') < Len(fetchReqs)
        /\ out'.event = "fetch_ok") => UndecidedAhead']_vars

\* C27: a toggle whose online-status request fails changes nothing: neither
\* the tap nor the failure changes the online flag, the bookings or the poll
\* timer, neither issues a refresh, and the failure shows the error toast.
C27_FailedToggleFrame ==
  [][(out'.event \in {"toggle_tap", "toggle_failed"} /\ statusReqs' # statusReqs) =>
       /\ isOnline' = isOnline
       /\ bookingRequests' = bookingRequests
       /\ pollIntervals' = pollIntervals
       /\ fetchReqs' = fetchReqs
       /\ \A k \in 1..Len(out'.sent) : out'.sent[k].kind # "booking-requests"
       /\ out'.event = "toggle_failed" =>
            (out'.toast = "Failed to update online status" /\ out'.sent = <<>>)]_vars

\* an online driver with offers tapped the toggle and the request has failed:
\* still online, the offers and the one poll timer are there
C27_Witness ==
  /\ out.event = "toggle_failed"
  /\ out.toast = "Failed to update online status"
  /\ isOnline
  /\ bookingRequests # <<>>
  /\ pollIntervals = 1
  /\ statusReqs = <<>>

\* C28: while the dashboard is mounted and no online-status request is in
\* flight, the online flag of the screen is the is_online that the backend
\* recorded last.
C28_FlagMatchesBackend ==
  (mounted /\ statusReqs = <<>>) => isOnline = backendOnline

\* C29: the modal is visible exactly when a booking is selected, and the
\* selected booking is one of the current bookings: no refresh and no going
\* offline leaves the modal open on an offer that is no longer in the list.
C29_ModalOnCurrentOffer ==
  mounted =>
    /\ isModalVisible <=> selectedBooking.id # "null"
    /\ selectedBooking.id # "null" => selectedBooking.id \in Ids(bookingRequests)

RideRank(rideStatus) ==
  IF rideStatus = "en_route_pickup" THEN 0
  ELSE IF rideStatus = "at_pickup" THEN 1
  ELSE IF rideStatus = "en_route_dropoff" THEN 2
  ELSE IF rideStatus = "at_dropoff" THEN 3
  ELSE 4

\* C30: rideStatus starts en_route_pickup and changes only in the step that
\* confirms the dialog of handleArrived, to the next status of en_route_pickup,
\* at_pickup, en_route_dropoff, at_dropoff: no skip, no step back; cancelling
\* a dialog leaves it; at_dropoff is left by no step; and the navigation to
\* ride-completed is scheduled only in the step from en_route_dropoff to
\* at_dropoff.
C30_RideStatusChain ==
  /\ ride.rideStatus = "en_route_pickup"
  /\ [][/\ RideRank(ride'.rideStatus) <= 3
        /\ ride'.rideStatus # ride.rideStatus =>
             /\ RideRank(ride'.rideStatus) = RideRank(ride.rideStatus) + 1
             /\ ride'.event = "alert_confirm"
             /\ ride.alert \in {"Arrived at Pickup", "Start Ride", "Complete Ride"}
        /\ (ride.alert # "none" /\ ride'.event = "alert_cancel") =>
             ride'.rideStatus = ride.rideStatus
        /\ ride.rideStatus = "at_dropoff" => ride'.rideStatus = "at_dropoff"
        /\ ride'.completedTimers > ride.completedTimers =>
             (ride.rideStatus = "en_route_dropoff"
                /\ ride'.rideStatus = "at_dropoff")]_vars

\* the ride went through the four statuses and the completed screen was pushed
C30_Witness ==
  /\ ride.rideStatus = "at_dropoff"
  /\ ride.screen = "ride-completed"
  /\ ride.pushes = 1
  /\ ride.toast = "Ride Completed"

====
